---- MODULE Spec2Model ----
(***************************************************************************)
(* Personal Finance Manager (src/app.py): a Streamlit script over a local  *)
(* sqlite database.  Every user interaction runs the script once, from     *)
(* main() down to the selected page, to completion.  One action below is   *)
(* one such run.  Each persistence call of a run may raise sqlite3.Error,  *)
(* which the persistence function catches itself (the set "fail" of a run  *)
(* names the calls that raise).  Amounts are counted in cents.             *)
(***************************************************************************)
EXTENDS Integers, Sequences, FiniteSets, TLC

\* ---------------------------------------------------------------- bounds
MaxTxns == 2
MaxLoans == 1
MaxPayments == 1
MaxGoal == 1
MaxBudget == 1

\* ------------------------------------------------------ program constants
Pages == {"Dashboard", "Transactions", "Budget Management", "Savings Goals",
          "Automated Payments", "Loans", "Data Export"}

TransactionCategories == <<"Food & Groceries", "Transportation", "Housing/Rent",
                           "Utilities", "Entertainment", "Shopping",
                           "Healthcare", "Salary", "Other">>

categories == <<"Food & Groceries", "Transportation", "Housing/Rent",
                "Utilities", "Entertainment", "Shopping", "Healthcare",
                "Other">>

TransactionTypes == {"Income", "Expense"}
Frequencies == {"Weekly", "Monthly", "Yearly"}
LoanTypes == {"Given", "Taken"}
default_user == "default_user"

Range(s) == {s[i] : i \in 1..Len(s)}

\* ------------------------------------------------------------ Python values
\* A datetime.date and a str are different Python objects; the Date column
\* holds one or the other.
PyDate(y, m, d) == [type |-> "date", year |-> y, month |-> m, day |-> d]
PyStr(s) == [type |-> "str", s |-> s]

Pad2(n) == IF n < 10 THEN "0" \o ToString(n) ELSE ToString(n)
Pad4(n) == IF n < 10 THEN "000" \o ToString(n)
           ELSE IF n < 100 THEN "00" \o ToString(n)
           ELSE IF n < 1000 THEN "0" \o ToString(n)
           ELSE ToString(n)

adapt_date_unpadded(v) ==
    IF v.type = "date"
    THEN PyStr(ToString(v.year) \o "-" \o ToString(v.month) \o "-" \o ToString(v.day))
    ELSE v

\* sqlite3's date adapter: a date is written as its ISO-8601 text; text stays.
adapt_date(v) == IF v.type = "date"
                 THEN PyStr(Pad4(v.year) \o "-" \o Pad2(v.month) \o "-" \o Pad2(v.day))
                 ELSE v

\* datetime.now().date()
Today == PyDate(2024, 11, 20)

\* ------------------------------------------------------------- form inputs
DateInputs == {PyDate(2024, 1, 5)}
CategoryInputs == {"Food & Groceries"}
FrequencyInputs == {"Weekly", "Yearly"}
\* min_value=0.01: an amount is at least one cent
AmountInputs == {1, 2}
DescriptionInputs == {"weekly shop"}
NameInputs == {"Car"}
GoalInputs == 0..MaxGoal
BudgetInputs == 0..MaxBudget
BudgetEditCategories == {"Food & Groceries", "Other"}

VARIABLES
    transactions,        \* table transactions
    budget,              \* table budget
    savings_goal_table,  \* table savings_goal
    automated_payments,  \* table automated_payments
    loans,               \* table loans
    ledger,              \* st.session_state.transactions
    savings_goal,        \* st.session_state.savings_goal
    req,                 \* the interaction being served: page, button, form, failing calls
    view                 \* what the run computed and issued

vars == <<transactions, budget, savings_goal_table, automated_payments, loans,
          ledger, savings_goal, req, view>>

tables == <<transactions, budget, savings_goal_table, automated_payments, loans>>

\* ------------------------------------------------------------- data frames
\* pd.DataFrame(): no columns, no rows.
EmptyDataFrame == [columns |-> FALSE, rows |-> <<>>]
DataFrame(rows) == [columns |-> TRUE, rows |-> rows]
\* DataFrame.empty
empty(df) == Len(df.rows) = 0

RECURSIVE SumAmount(_)
SumAmount(rows) == IF rows = <<>> THEN 0
                   ELSE Head(rows).Amount + SumAmount(Tail(rows))

OfType(rows, t) == SelectSeq(rows, LAMBDA r : r.Type = t)
OfCategory(rows, c) == SelectSeq(rows, LAMBDA r : r.Category = c)

\* ------------------------------------------------------------- persistence
\* DataFrame.to_sql(..., if_exists='append'): the row is written through the
\* sqlite3 adapters behind the rows the table holds.
ToSqlTransaction(r) == [r EXCEPT !.Date = adapt_date(r.Date)]

save_to_database_replace(table, r, ok) ==
    IF ok THEN <<ToSqlTransaction(r)>> ELSE table

save_to_database(table, r, ok) ==
    IF ok THEN Append(table, ToSqlTransaction(r)) ELSE table

RECURSIVE Reverse(_)
Reverse(s) == IF s = <<>> THEN <<>> ELSE Append(Reverse(Tail(s)), Head(s))

load_from_database_newest_first(table, ok) ==
    IF ok THEN DataFrame(Reverse(table)) ELSE EmptyDataFrame

load_from_database(table, ok) ==
    IF ok THEN DataFrame(table) ELSE EmptyDataFrame

\* the budget table before save_budget_to_database has created it
NoTable == [exists |-> FALSE, rows |-> <<>>]

NoRun == [page |-> "none", button |-> FALSE, form |-> <<>>, fail |-> {}]
NoView == [outcome |-> "ok", error |-> "", notices |-> {}, out |-> <<>>]

Notices(fail) == {<<"error", f>> : f \in fail}

\* ------------------------------------------------------------- savings_goal
\* INSERT OR REPLACE on the primary key User
save_savings_goal_to_database(table, user, goal, ok) ==
    IF ok THEN Append(SelectSeq(table, LAMBDA row : row.User # user),
                      [User |-> user, Goal |-> goal])
    ELSE table

\* SELECT Goal ... WHERE User = ?; fetchone(); 0 without a row or on an error
load_savings_goal_from_database(table, user, ok) ==
    LET result == SelectSeq(table, LAMBDA row : row.User = user)
    IN IF ok /\ result # <<>> THEN Head(result).Goal ELSE 0

\* ----------------------------------------------------------- show_dashboard
show_dashboard(df) ==
    IF empty(df)
    THEN [NoView EXCEPT !.notices = {<<"warning", "No transactions available">>}]
    ELSE LET total_income == SumAmount(OfType(df.rows, "Income"))
             total_expenses == SumAmount(OfType(df.rows, "Expense"))
         IN [NoView EXCEPT !.out =
               [total_income |-> total_income,
                total_expenses |-> total_expenses,
                net_savings |-> total_income - total_expenses]]

ShowDashboard ==
    /\ req' = [NoRun EXCEPT !.page = "Dashboard"]
    /\ view' = show_dashboard(ledger)
    /\ UNCHANGED <<tables, ledger, savings_goal>>

\* ------------------------------------------------------------------- main
MainCalls == {"load_from_database", "load_savings_goal_from_database"}

\* The first run of a session fills the session state from the database and
\* shows the Dashboard, the first page of the sidebar.
main(table, goals, fail) ==
    LET df == load_from_database(table, "load_from_database" \notin fail)
        shown == show_dashboard(df)
    IN [ledger |-> df,
        savings_goal |-> load_savings_goal_from_database(goals, default_user,
                             "load_savings_goal_from_database" \notin fail),
        view |-> [shown EXCEPT !.notices = @ \cup Notices(fail)]]

Init ==
    /\ transactions = <<>>
    /\ budget = NoTable
    /\ savings_goal_table = <<>>
    /\ automated_payments = <<>>
    /\ loans = <<>>
    /\ \E fail \in SUBSET MainCalls :
          LET m == main(<<>>, <<>>, fail)
          IN /\ ledger = m.ledger
             /\ savings_goal = m.savings_goal
             /\ view = m.view
             /\ req = [NoRun EXCEPT !.page = "Dashboard", !.fail = fail]

\* A new browser session on the same database.
NewSession(fail) ==
    /\ LET m == main(transactions, savings_goal_table, fail)
       IN /\ ledger' = m.ledger
          /\ savings_goal' = m.savings_goal
          /\ view' = m.view
    /\ req' = [NoRun EXCEPT !.page = "Dashboard", !.fail = fail]
    /\ UNCHANGED tables

\* --------------------------------------------------------- show_transactions
TransactionForms ==
    [Date : DateInputs, Category : CategoryInputs, Amount : AmountInputs,
     Description : DescriptionInputs, Type : TransactionTypes]

new_transaction(form) ==
    [Date |-> form.Date, Category |-> form.Category, Amount |-> form.Amount,
     Description |-> form.Description, Type |-> form.Type, User |-> default_user]

\* Transaction History, lines 101-106
TransactionHistory(df) == [shown |-> IF ~empty(df) THEN Len(df.rows) ELSE 0]

AddTransaction(form, fail) ==
    /\ Len(transactions) < MaxTxns
    /\ LET saved == save_to_database(transactions, new_transaction(form),
                                     "save_to_database" \notin fail)
           df == load_from_database(saved, "load_from_database" \notin fail)
       IN /\ transactions' = saved
          /\ ledger' = df
          \* st.rerun(): the script runs again on the Transactions page
          /\ view' = [NoView EXCEPT !.notices = Notices(fail),
                                    !.out = TransactionHistory(df)]
    /\ req' = [page |-> "Transactions", button |-> TRUE, form |-> form, fail |-> fail]
    /\ UNCHANGED <<budget, savings_goal_table, automated_payments, loans, savings_goal>>

ViewTransactions ==
    /\ req' = [NoRun EXCEPT !.page = "Transactions"]
    /\ view' = [NoView EXCEPT !.out = TransactionHistory(ledger)]
    /\ UNCHANGED <<tables, ledger, savings_goal>>

show_transactions ==
    \/ \E form \in TransactionForms :
       \E fail \in SUBSET {"save_to_database", "load_from_database"} :
          AddTransaction(form, fail)
    \/ ViewTransactions

\* -------------------------------------------------------- automated_payments
PaymentForms == [Name : NameInputs, Amount : AmountInputs, Frequency : FrequencyInputs]

new_payment(form) ==
    [Name |-> form.Name, Amount |-> form.Amount, Frequency |-> form.Frequency,
     NextPaymentDate |-> adapt_date(Today), User |-> default_user]

save_automated_payment_to_database(table, r, ok) ==
    IF ok THEN Append(table, r) ELSE table

load_automated_payments_from_database(table, ok) ==
    IF ok THEN DataFrame(table) ELSE EmptyDataFrame

AddAutomatedPayment(form, fail) ==
    /\ Len(automated_payments) < MaxPayments
    /\ LET saved == save_automated_payment_to_database(automated_payments,
                        new_payment(form),
                        "save_automated_payment_to_database" \notin fail)
           payments == load_automated_payments_from_database(saved,
                        "load_automated_payments_from_database" \notin fail)
       IN /\ automated_payments' = saved
          /\ view' = [NoView EXCEPT !.notices = Notices(fail),
                                    !.out = [shown |-> Len(payments.rows)]]
    /\ req' = [page |-> "Automated Payments", button |-> TRUE, form |-> form, fail |-> fail]
    /\ UNCHANGED <<transactions, budget, savings_goal_table, loans, ledger, savings_goal>>

ViewAutomatedPayments(fail) ==
    /\ LET payments == load_automated_payments_from_database(automated_payments,
                        "load_automated_payments_from_database" \notin fail)
       IN view' = [NoView EXCEPT !.notices = Notices(fail),
                                 !.out = [shown |-> Len(payments.rows)]]
    /\ req' = [NoRun EXCEPT !.page = "Automated Payments", !.fail = fail]
    /\ UNCHANGED <<tables, ledger, savings_goal>>

automated_payments_page ==
    \/ \E form \in PaymentForms :
       \E fail \in SUBSET {"save_automated_payment_to_database",
                           "load_automated_payments_from_database"} :
          AddAutomatedPayment(form, fail)
    \/ \E fail \in SUBSET {"load_automated_payments_from_database"} :
          ViewAutomatedPayments(fail)

\* --------------------------------------------------------------------- loans
LoanForms == [Name : NameInputs, Amount : AmountInputs, Type : LoanTypes]

new_loan(form) ==
    [Name |-> form.Name, Amount |-> form.Amount, Type |-> form.Type,
     DueDate |-> adapt_date(Today), User |-> default_user]

\* the "Other Expense" transaction of a given loan, lines 238-245
loan_transaction_as_income(form) ==
    [Date |-> Today, Category |-> "Other", Amount |-> form.Amount,
     Description |-> "Loan Given: " \o form.Name, Type |-> "Income",
     User |-> default_user]

loan_transaction(form) ==
    [Date |-> Today, Category |-> "Other", Amount |-> form.Amount,
     Description |-> "Loan Given: " \o form.Name, Type |-> "Expense",
     User |-> default_user]

save_loan_to_database(table, r, ok) ==
    IF ok THEN Append(table, r) ELSE table

load_loans_from_database(table, ok) ==
    IF ok THEN DataFrame(table) ELSE EmptyDataFrame

LoanCalls(form) ==
    {"save_loan_to_database", "load_loans_from_database"}
    \cup (IF form.Type = "Given"
          THEN {"save_to_database", "load_from_database"} ELSE {})

AddLoan(form, fail) ==
    /\ Len(loans) < MaxLoans
    /\ form.Type = "Given" => Len(transactions) < MaxTxns
    /\ LET saved_loans == save_loan_to_database(loans, new_loan(form),
                              "save_loan_to_database" \notin fail)
           saved == IF form.Type = "Given"
                    THEN save_to_database(transactions, loan_transaction(form),
                                          "save_to_database" \notin fail)
                    ELSE transactions
           shown == load_loans_from_database(saved_loans,
                              "load_loans_from_database" \notin fail)
       IN /\ loans' = saved_loans
          /\ transactions' = saved
          /\ ledger' = IF form.Type = "Given"
                       THEN load_from_database(saved, "load_from_database" \notin fail)
                       ELSE ledger
          /\ view' = [NoView EXCEPT !.notices = Notices(fail),
                                    !.out = [shown |-> Len(shown.rows)]]
    /\ req' = [page |-> "Loans", button |-> TRUE, form |-> form, fail |-> fail]
    /\ UNCHANGED <<budget, savings_goal_table, automated_payments, savings_goal>>

ViewLoans(fail) ==
    /\ LET shown == load_loans_from_database(loans,
                              "load_loans_from_database" \notin fail)
       IN view' = [NoView EXCEPT !.notices = Notices(fail),
                                 !.out = [shown |-> Len(shown.rows)]]
    /\ req' = [NoRun EXCEPT !.page = "Loans", !.fail = fail]
    /\ UNCHANGED <<tables, ledger, savings_goal>>

loans_page ==
    \/ \E form \in LoanForms : \E fail \in SUBSET LoanCalls(form) :
          AddLoan(form, fail)
    \/ \E fail \in SUBSET {"load_loans_from_database"} : ViewLoans(fail)

\* --------------------------------------------------------------- data_export
\* DataFrame.to_csv(index=False): the header line and one line per record.
to_csv_lines(df) == 1 + Len(df.rows)

ExportToCsv ==
    /\ req' = [NoRun EXCEPT !.page = "Data Export", !.button = TRUE]
    /\ view' = [NoView EXCEPT !.out = [lines |-> to_csv_lines(ledger)]]
    /\ UNCHANGED <<tables, ledger, savings_goal>>

ViewExport ==
    /\ req' = [NoRun EXCEPT !.page = "Data Export"]
    /\ view' = NoView
    /\ UNCHANGED <<tables, ledger, savings_goal>>

data_export == ExportToCsv \/ ViewExport

\* --------------------------------------------------------- budget_management
\* import plotly.express as px is the only plotly import: the name go is unbound
go_is_imported == FALSE

InsertOnly(rows, category, amount) ==
    Append(rows, [Category |-> category, Amount |-> amount])

\* INSERT OR REPLACE on the primary key Category
InsertOrReplace(rows, category, amount) ==
    Append(SelectSeq(rows, LAMBDA row : row.Category # category),
           [Category |-> category, Amount |-> amount])

RECURSIVE InsertAll(_, _, _)
InsertAll(rows, cats, budget_data) ==
    IF cats = <<>> THEN rows
    ELSE InsertAll(InsertOrReplace(rows, Head(cats), budget_data[Head(cats)]),
                   Tail(cats), budget_data)

\* one transaction: every category of the form is written, or nothing is
save_budget_to_database(table, budget_data, ok) ==
    IF ok THEN [exists |-> TRUE, rows |-> InsertAll(table.rows, categories, budget_data)]
    ELSE table

\* SELECT * FROM budget raises when the table was never created
BudgetLoads(table, ok) == ok /\ table.exists

\* {row[0]: row[1] for row in cursor.fetchall()}; {} on an error
load_budget_from_database(table, ok) ==
    IF BudgetLoads(table, ok)
    THEN [c \in {table.rows[i].Category : i \in 1..Len(table.rows)} |->
            LET at == {i \in 1..Len(table.rows) : table.rows[i].Category = c}
            IN table.rows[CHOOSE i \in at : \A j \in at : j <= i].Amount]
    ELSE <<>>

\* dict.get(key, default)
dict_get(d, key, default) == IF key \in DOMAIN d THEN d[key] ELSE default

\* the number_input of every category shows the loaded amount; the user may
\* have typed another amount into one of them
BudgetForms(budget_data) ==
    {[c \in Range(categories) |->
        IF c = ec THEN v ELSE dict_get(budget_data, c, 0)] :
     ec \in BudgetEditCategories, v \in BudgetInputs}

actual_spending_any_type(df, category) ==
    SumAmount(OfCategory(df.rows, category))

\* Series.get(category, 0) of the expenses grouped by category
actual_spending(df, category) ==
    SumAmount(OfCategory(OfType(df.rows, "Expense"), category))

comparison_data(new_budget_data, df) ==
    [c \in Range(categories) |->
        [Budget |-> new_budget_data[c],
         Actual |-> actual_spending(df, c),
         Difference |-> new_budget_data[c] - actual_spending(df, c)]]

\* Budget Alerts, lines 149-153
budget_alerts(comparison) ==
    {c \in DOMAIN comparison : comparison[c].Actual > comparison[c].Budget}

BudgetCalls(button) ==
    {"load_budget_from_database"}
    \cup (IF button THEN {"save_budget_to_database"} ELSE {})

budget_management(button, fail) ==
    LET load_ok == "load_budget_from_database" \notin fail
        budget_data == load_budget_from_database(budget, load_ok)
        raised == fail \cup (IF BudgetLoads(budget, load_ok) THEN {}
                             ELSE {"load_budget_from_database"})
    IN \E new_budget_data \in BudgetForms(budget_data) :
       /\ budget' = IF button
                    THEN save_budget_to_database(budget, new_budget_data,
                                  "save_budget_to_database" \notin fail)
                    ELSE budget
       /\ req' = [page |-> "Budget Management", button |-> button,
                  form |-> new_budget_data, fail |-> fail]
       /\ view' =
            IF ~ledger.columns
            THEN \* line 129: no column 'Type' in pd.DataFrame()
                 [NoView EXCEPT !.outcome = "crashed", !.error = "KeyError",
                                !.notices = Notices(raised)]
            ELSE LET comparison == comparison_data(new_budget_data, ledger)
                 IN IF ~go_is_imported
                    THEN \* line 142: go.Figure
                         [NoView EXCEPT !.outcome = "crashed", !.error = "NameError",
                                        !.notices = Notices(raised),
                                        !.out = [comparison_data |-> comparison]]
                    ELSE [NoView EXCEPT
                            !.notices = Notices(raised) \cup
                                {<<"warning", c>> : c \in budget_alerts(comparison)},
                            !.out = [comparison_data |-> comparison,
                                     alerts |-> budget_alerts(comparison)]]
       /\ UNCHANGED <<transactions, savings_goal_table, automated_payments, loans,
                      ledger, savings_goal>>

SaveBudget == \E fail \in SUBSET BudgetCalls(TRUE) : budget_management(TRUE, fail)
ViewBudget == \E fail \in SUBSET BudgetCalls(FALSE) : budget_management(FALSE, fail)

\* -------------------------------------------------------------- savings_goals
Rat(n, d) == [num |-> n, den |-> d]
RatLess(a, b) == a.num * b.den < b.num * a.den

\* Python's min(a, b) and max(a, b): the first argument unless the second is
\* strictly smaller (larger)
py_min(a, b) == IF RatLess(b, a) THEN b ELSE a
py_max(a, b) == IF RatLess(a, b) THEN b ELSE a

no_clamp(p) == p
clamp(p) == py_max(Rat(0, 1), py_min(p, Rat(1, 1)))

savings_progress(df, payments, new_goal) ==
    LET total_income == SumAmount(OfType(df.rows, "Income"))
        total_expenses == SumAmount(OfType(df.rows, "Expense"))
        total_savings == total_income - total_expenses
        expected_expenses == IF ~empty(payments) THEN SumAmount(payments.rows) ELSE 0
        adjusted_savings == total_savings - expected_expenses
        progress == IF new_goal > 0 THEN Rat(adjusted_savings, new_goal) ELSE Rat(0, 1)
    IN [adjusted_savings |-> adjusted_savings,
        progress |-> clamp(progress)]

SavingsCalls(button) ==
    {"load_automated_payments_from_database"}
    \cup (IF button THEN {"save_savings_goal_to_database"} ELSE {})

savings_goals(new_goal, button, fail) ==
    /\ savings_goal' = IF button THEN new_goal ELSE savings_goal
    /\ savings_goal_table' =
          IF button
          THEN save_savings_goal_to_database(savings_goal_table, default_user, new_goal,
                    "save_savings_goal_to_database" \notin fail)
          ELSE savings_goal_table
    /\ req' = [page |-> "Savings Goals", button |-> button, form |-> new_goal,
               fail |-> fail]
    /\ view' =
         IF ~ledger.columns
         THEN \* line 167: no column 'Type' in pd.DataFrame(); the payments are not loaded
              [NoView EXCEPT !.outcome = "crashed", !.error = "KeyError",
                  !.notices = Notices(fail \ {"load_automated_payments_from_database"})]
         ELSE LET payments == load_automated_payments_from_database(automated_payments,
                                 "load_automated_payments_from_database" \notin fail)
                  shown == savings_progress(ledger, payments, new_goal)
              IN [NoView EXCEPT !.notices = Notices(fail),
                     !.out = [automated_payments |-> payments,
                              adjusted_savings |-> shown.adjusted_savings,
                              progress |-> shown.progress]]
    /\ UNCHANGED <<transactions, budget, automated_payments, loans, ledger>>

UpdateSavingsGoal ==
    \E new_goal \in GoalInputs : \E fail \in SUBSET SavingsCalls(TRUE) :
        savings_goals(new_goal, TRUE, fail)

ViewSavingsGoals ==
    \E new_goal \in GoalInputs : \E fail \in SUBSET SavingsCalls(FALSE) :
        savings_goals(new_goal, FALSE, fail)

\* ---------------------------------------------------------------- the app
Next ==
    \/ \E fail \in SUBSET MainCalls : NewSession(fail)
    \/ ShowDashboard
    \/ show_transactions
    \/ SaveBudget
    \/ ViewBudget
    \/ UpdateSavingsGoal
    \/ ViewSavingsGoals
    \/ automated_payments_page
    \/ loans_page
    \/ data_export

Spec == Init /\ [][Next]_vars

\* The user keeps to the pages that read or write the ledger.
NextLedger ==
    \/ \E fail \in SUBSET MainCalls : NewSession(fail)
    \/ ShowDashboard
    \/ show_transactions
    \/ loans_page
    \/ data_export

SpecLedger == Init /\ [][NextLedger]_vars

\* The user keeps to Transactions and Budget Management.
NextBudget ==
    \/ show_transactions
    \/ ViewBudget
    \/ SaveBudget

SpecBudget == Init /\ [][NextBudget]_vars

\* The user adds transactions and automated payments and opens Savings Goals.
NextSavings ==
    \/ \E form \in TransactionForms :
       \E fail \in SUBSET {"save_to_database", "load_from_database"} :
          AddTransaction(form, fail)
    \/ \E form \in PaymentForms :
       \E fail \in SUBSET {"save_automated_payment_to_database",
                           "load_automated_payments_from_database"} :
          AddAutomatedPayment(form, fail)
    \/ UpdateSavingsGoal
    \/ ViewSavingsGoals

SpecSavings == Init /\ [][NextSavings]_vars

\* The user presses the buttons that write to the three logs.
NextLogs ==
    \/ \E form \in TransactionForms :
       \E fail \in SUBSET {"save_to_database", "load_from_database"} :
          AddTransaction(form, fail)
    \/ \E form \in PaymentForms :
       \E fail \in SUBSET {"save_automated_payment_to_database",
                           "load_automated_payments_from_database"} :
          AddAutomatedPayment(form, fail)
    \/ \E form \in LoanForms : \E fail \in SUBSET LoanCalls(form) :
          AddLoan(form, fail)

SpecLogs == Init /\ [][NextLogs]_vars

\* Every button that is not Add Transaction.
NextOtherButtons ==
    \/ \E form \in LoanForms : \E fail \in SUBSET LoanCalls(form) :
          AddLoan(form, fail)
    \/ \E form \in PaymentForms :
       \E fail \in SUBSET {"save_automated_payment_to_database",
                           "load_automated_payments_from_database"} :
          AddAutomatedPayment(form, fail)
    \/ SaveBudget
    \/ UpdateSavingsGoal

SpecOtherButtons == Init /\ [][NextOtherButtons]_vars

\* Every page is opened; transactions are added on the way.
NextPages ==
    \/ \E fail \in SUBSET MainCalls : NewSession(fail)
    \/ ShowDashboard
    \/ show_transactions
    \/ ViewBudget
    \/ ViewSavingsGoals
    \/ \E fail \in SUBSET {"load_automated_payments_from_database"} :
          ViewAutomatedPayments(fail)
    \/ \E fail \in SUBSET {"load_loans_from_database"} : ViewLoans(fail)
    \/ data_export

SpecPages == Init /\ [][NextPages]_vars
\* ================================================================== claims
IsPrefix(s, t) == Len(s) <= Len(t) /\ SubSeq(t, 1, Len(s)) = s
Holds(rows, r) == \E i \in 1..Len(rows) : rows[i] = r

AddTransactionDone ==
    req.page = "Transactions" /\ req.button

AddLoanDone(type) ==
    req.page = "Loans" /\ req.button /\ req.form.Type = type

\* the six fields as the user submitted them
Submitted(form) ==
    [Date |-> form.Date, Category |-> form.Category, Amount |-> form.Amount,
     Description |-> form.Description, Type |-> form.Type, User |-> "default_user"]

\* C1 as stated: after an Add Transaction whose save and reload both succeed,
\* the ledger holds the submitted record with all six fields equal to the
\* submitted values, and every record the table held before.
C1_AsStated ==
    [][(AddTransactionDone /\ req.fail = {})' =>
          /\ Holds(ledger'.rows, Submitted(req'.form))
          /\ \A j \in 1..Len(transactions) : Holds(ledger'.rows, transactions[j])]_vars

\* C1 amended: after an Add Transaction whose save and reload both succeed, the
\* ledger is the table as it was before with one record behind it; that record
\* has the submitted Category, Amount, Description, Type and User, and its Date
\* is the ISO-8601 text of the submitted date (a str, not the date submitted).
C1_ReadYourWrites ==
    [][(AddTransactionDone /\ req.fail = {})' =>
          LET r == Submitted(req'.form)
              d == r.Date
              text == (IF d.year < 1000 THEN "0" ELSE "") \o ToString(d.year) \o "-"
                      \o (IF d.month < 10 THEN "0" ELSE "") \o ToString(d.month) \o "-"
                      \o (IF d.day < 10 THEN "0" ELSE "") \o ToString(d.day)
          IN /\ ledger'.rows = Append(transactions, [r EXCEPT !.Date = [type |-> "str", s |-> text]])
             /\ d = [type |-> "date", year |-> 2024, month |-> 1, day |-> 5]
                   => ledger'.rows[Len(ledger'.rows)].Date = [type |-> "str", s |-> "2024-01-05"]
             /\ \A j \in 1..Len(transactions) : Holds(ledger'.rows, transactions[j])]_vars

\* C1 witness: a second transaction has been added and read back
C1_Witness ==
    /\ AddTransactionDone /\ req.fail = {}
    /\ Len(ledger.rows) = 2
    /\ ledger.rows[2].Date = [type |-> "str", s |-> "2024-01-05"]
    /\ ledger.rows[2].Amount = req.form.Amount

\* C8 as stated: the session ledger always equals the transactions table, in
\* insertion order; no run leaves it without a record of the table.
C8_AsStated == ledger.rows = transactions

\* C8 amended: the ledger never holds a record that is not in the table; it
\* equals the table, in insertion order, unless the last reload failed, and
\* then it is the empty pd.DataFrame() until the next reload; after an action
\* that writes a transaction and whose reload succeeds, it equals the table.
C8_LedgerCoherence ==
    /\ ledger.columns => ledger.rows = transactions
    /\ ~ledger.columns => ledger.rows = <<>>
    /\ (AddTransactionDone \/ AddLoanDone("Given")) /\ "load_from_database" \notin req.fail
          => ledger.columns /\ ledger.rows = transactions

\* C8 witness: a given loan's expense behind an added transaction, both read back
C8_Witness ==
    /\ AddLoanDone("Given") /\ req.fail = {}
    /\ Len(transactions) = 2
    /\ ledger.rows = transactions
    /\ transactions[1].Category # "Other"

\* C10 as stated: every "Loan Given: n" transaction of amount a has a row of
\* the loans table with Name n, Amount a and Type Given.
C10_LoanFirst ==
    \A i \in 1..Len(transactions) : \A n \in NameInputs :
        transactions[i].Description = "Loan Given: " \o n =>
            \E j \in 1..Len(loans) :
                /\ loans[j].Name = n
                /\ loans[j].Amount = transactions[i].Amount
                /\ loans[j].Type = "Given"
\* the transaction the claim expects of a given loan
IsLoanExpense(t, form) ==
    /\ t.Type = "Expense"
    /\ t.Category = "Other"
    /\ t.Amount = form.Amount
    /\ t.Description = "Loan Given: " \o form.Name
    /\ t.User = "default_user"

OneMore(old, new) == Len(new) = Len(old) + 1 /\ IsPrefix(old, new)

OtherButtonDone ==
    \/ AddLoanDone("Taken")
    \/ req.button /\ req.page \in {"Automated Payments", "Budget Management", "Savings Goals"}

\* C2 as stated: every Add Loan of type Given adds exactly one transaction,
\* the loan's expense; Add Loan of type Taken, Add Automated Payment, Save
\* Budget and Update Savings Goal add none.
C2_AsStated ==
    [][/\ AddLoanDone("Given")' =>
             /\ OneMore(transactions, transactions')
             /\ IsLoanExpense(transactions'[Len(transactions')], req'.form)
       /\ OtherButtonDone' => transactions' = transactions]_vars

\* C2 amended: an Add Loan of type Given whose save_to_database succeeds adds
\* exactly one transaction, the loan's expense, and one whose save_to_database
\* fails adds none; Add Loan of type Taken, Add Automated Payment, Save Budget
\* and Update Savings Goal add none.
C2_LoanGivenExpense ==
    [][/\ (AddLoanDone("Given") /\ "save_to_database" \notin req.fail)' =>
             /\ OneMore(transactions, transactions')
             /\ IsLoanExpense(transactions'[Len(transactions')], req'.form)
       /\ (AddLoanDone("Given") /\ "save_to_database" \in req.fail)' =>
             transactions' = transactions
       /\ OtherButtonDone' => transactions' = transactions]_vars

\* C2 witness: a given loan named Car has been added and its expense recorded
C2_Witness ==
    /\ AddLoanDone("Given") /\ req.fail = {}
    /\ req.form.Name = "Car"
    /\ Len(transactions) = 1
    /\ transactions[1].Description = "Loan Given: Car"
    /\ transactions[1].Amount = req.form.Amount
    /\ Len(loans) = 1

BudgetRead(c) == dict_get(load_budget_from_database(budget, TRUE), c, 0)

SaveBudgetDone ==
    req.page = "Budget Management" /\ req.button
    /\ "save_budget_to_database" \notin req.fail

\* C4: the budget table never holds two rows of one category; a category reads
\* back as 0 before any save; a Save Budget that succeeds makes every category
\* read back as the amount just saved for it, and nothing else changes what a
\* category reads back as.
C4_BudgetUpsert ==
    /\ \A c \in Range(categories) : BudgetRead(c) = 0
    /\ [](\A c \in Range(categories) :
             Cardinality({i \in 1..Len(budget.rows) : budget.rows[i].Category = c}) <= 1)
    /\ [][LET before == load_budget_from_database(budget, TRUE)
               after == load_budget_from_database(budget', TRUE)
           IN  \A c \in Range(categories) :
                  IF SaveBudgetDone' THEN dict_get(after, c, 0) = req'.form[c]
                  ELSE dict_get(after, c, 0) = dict_get(before, c, 0)]_vars

\* C4 witness: two saves have set two categories to different amounts; the
\* other categories still read back as 0
C4_Witness ==
    /\ SaveBudgetDone
    /\ BudgetRead("Food & Groceries") = 1
    /\ BudgetRead("Other") = 1
    /\ BudgetRead("Utilities") = 0
    /\ Len(budget.rows) = 8

RECURSIVE ExpensesIn(_, _)
ExpensesIn(rows, c) ==
    IF rows = <<>> THEN 0
    ELSE (IF Head(rows).Type = "Expense" /\ Head(rows).Category = c
          THEN Head(rows).Amount ELSE 0) + ExpensesIn(Tail(rows), c)

Compared == req.page = "Budget Management" /\ "comparison_data" \in DOMAIN view.out

\* C5 as stated: in every comparison, Budget[c] is the amount saved in the
\* budget table for c (0 without one), Actual[c] the sum of the ledger's
\* expenses of category c, and Difference[c] = Budget[c] - Actual[c].
C5_AsStated ==
    Compared =>
        \A c \in Range(categories) :
            /\ view.out.comparison_data[c].Budget = BudgetRead(c)
            /\ view.out.comparison_data[c].Actual = ExpensesIn(ledger.rows, c)
            /\ view.out.comparison_data[c].Difference = BudgetRead(c) - ExpensesIn(ledger.rows, c)

\* C5 amended: in every comparison, Budget[c] is the amount in the page's form
\* for c, Actual[c] the sum of the ledger's expenses of category c (0 without
\* any), and Difference[c] = Budget[c] - Actual[c]; the comparison has the eight
\* fixed categories; after a Save Budget that succeeded, Budget[c] is the amount
\* saved in the budget table.
C5_BudgetComparison ==
    Compared =>
        /\ DOMAIN view.out.comparison_data =
              {"Food & Groceries", "Transportation", "Housing/Rent", "Utilities",
               "Entertainment", "Shopping", "Healthcare", "Other"}
        /\ \A c \in DOMAIN view.out.comparison_data :
            /\ view.out.comparison_data[c].Budget = req.form[c]
            /\ view.out.comparison_data[c].Actual = ExpensesIn(ledger.rows, c)
            /\ view.out.comparison_data[c].Difference = req.form[c] - ExpensesIn(ledger.rows, c)
            /\ SaveBudgetDone => view.out.comparison_data[c].Budget = BudgetRead(c)

\* C5 witness: a comparison with the form differing from the saved amounts,
\* spending above the budget of one category and none in another
C5_Witness ==
    /\ Compared
    /\ req.form["Food & Groceries"] # BudgetRead("Food & Groceries")
    /\ view.out.comparison_data["Food & Groceries"].Difference < 0
    /\ view.out.comparison_data["Other"].Actual = 0
    /\ \E i \in 1..Len(ledger.rows) :
          ledger.rows[i].Type = "Income" /\ ledger.rows[i].Category = "Food & Groceries"

\* C7 as stated: every run of Budget Management reaches the alerts and warns
\* of exactly the categories whose Actual is above their Budget.
C7_Alerts ==
    req.page = "Budget Management" =>
        /\ view.outcome = "ok"
        /\ "alerts" \in DOMAIN view.out
        /\ view.out.alerts = {c \in Range(categories) :
                                 ExpensesIn(ledger.rows, c) > req.form[c]}
RECURSIVE TotalOf(_, _)
TotalOf(rows, type) ==
    IF rows = <<>> THEN 0
    ELSE (IF Head(rows).Type = type THEN Head(rows).Amount ELSE 0)
         + TotalOf(Tail(rows), type)

RECURSIVE PaymentsTotal(_)
PaymentsTotal(rows) ==
    IF rows = <<>> THEN 0 ELSE Head(rows).Amount + PaymentsTotal(Tail(rows))

SavingsShown == req.page = "Savings Goals" /\ view.outcome = "ok"

\* income - expenses - all automated payments the page loaded
Adjusted ==
    TotalOf(ledger.rows, "Income") - TotalOf(ledger.rows, "Expense")
    - PaymentsTotal(view.out.automated_payments.rows)

\* C3: whenever the Savings Goals page shows the progress for a goal g, with
\* adjusted = income - expenses - the amounts of all automated payments it
\* loaded (whatever their frequency): the progress is within [0, 1]; it is 0
\* when g = 0; it is 1 when adjusted >= g > 0; it is 0 when adjusted < 0; and
\* the savings figure shown is adjusted itself.  The payments loaded are the
\* whole automated_payments table unless the load failed.
C3_SavingsProgress ==
    SavingsShown =>
        LET g == req.form
            p == view.out.progress
        IN /\ p.den > 0 /\ 0 <= p.num /\ p.num <= p.den
           /\ g = 0 => p.num = 0
           /\ Adjusted >= g /\ g > 0 => p.num = p.den
           /\ Adjusted < 0 => p.num = 0
           /\ 0 <= Adjusted /\ Adjusted <= g /\ g > 0 => p.num * g = Adjusted * p.den
           /\ view.out.adjusted_savings = Adjusted
           /\ "load_automated_payments_from_database" \notin req.fail
                 => view.out.automated_payments.rows = automated_payments

\* C3 witness: savings above the goal after a payment is taken off
C3_Witness ==
    /\ SavingsShown
    /\ req.form > 0
    /\ Len(view.out.automated_payments.rows) = 1
    /\ view.out.adjusted_savings > req.form
    /\ view.out.progress.num = view.out.progress.den

\* C6 as stated: every persistence call that fails is reported as a notice,
\* a failing load gives the empty result, and no run of a page crashes.
C6_NeverFatal ==
    /\ view.outcome = "ok"
    /\ \A f \in req.fail : <<"error", f>> \in view.notices
    /\ (req.page \in {"Dashboard", "Transactions"} /\ "load_from_database" \in req.fail)
          => ledger = [columns |-> FALSE, rows |-> <<>>]
====
